---------------------------- MODULE Spec2Model ----------------------------
(***************************************************************************)
(* presence-switch: a local IPC relay for the Discord Rich Presence        *)
(* protocol.  One listener accepts clients; each client session decodes    *)
(* frames from the client's byte stream, answers Ping, handles Handshake   *)
(* by connecting to every other discord-ipc-N endpoint, and broadcasts the *)
(* remaining frames to the connected hosts; the hosts' replies are         *)
(* funnelled back to the client.                                           *)
(*                                                                         *)
(* The opcode-aware relay (switch/ipc/mod.rs, switch/ipc/windows.rs,       *)
(* discord/ipc/mod.rs, discord/ipc/windows.rs) is modelled frame by frame  *)
(* and byte by byte; of the POSIX listener (switch/ipc/unix.rs) the accept *)
(* task, the inline session call and the shutdown sequence are modelled.   *)
(***************************************************************************)
EXTENDS Integers, Sequences, FiniteSets, TLC

(***************************************************************************)
(* Bounds of the exploration.                                              *)
(***************************************************************************)
MaxSessions == 2
MaxHosts == 2
MaxClientFrames == 3
MaxFunnelClientFrames == 1
MaxHostFrames == 2
MaxListenerFrames == 2
MaxNamesFrames == 1
MaxCodecFrames == 2
MaxOpcode == 6
MaxLagFrames == 18
MaxPartFrames == 3
MaxContainFrames == 2
MaxContainHostFrames == 2
MaxBindNames == 3
MaxIsoFrames == 4
MaxIsoHostFrames == 2
MaxCacheFrames == 3

(***************************************************************************)
(* Values fixed by the program.                                             *)
(***************************************************************************)
NameCount == 10
BusCapacity == 16
ReserveChunk == 64

Sessions == 1..MaxSessions

Min(a, b) == IF a < b THEN a ELSE b

(***************************************************************************)
(* Frame codec (discord/ipc/mod.rs).                                       *)
(***************************************************************************)
OpCodes == {"Handshake", "Frame", "Close", "Ping", "Pong"}

\* `opcode as u32`
AsU32(op) ==
    CASE op = "Handshake" -> 0
      [] op = "Frame"     -> 1
      [] op = "Close"     -> 2
      [] op = "Ping"      -> 3
      [] op = "Pong"      -> 4

\* A from_u32 that looks at the low byte only
FromLowByte(n) ==
    CASE n % 256 = 0 -> "Handshake"
      [] n % 256 = 1 -> "Frame"
      [] n % 256 = 2 -> "Close"
      [] n % 256 = 3 -> "Ping"
      [] n % 256 = 4 -> "Pong"
      [] OTHER -> "InvalidOpCode"

\* OpCode::from_u32
FromU32(n) ==
    CASE n = 0 -> "Handshake"
      [] n = 1 -> "Frame"
      [] n = 2 -> "Close"
      [] n = 3 -> "Ping"
      [] n = 4 -> "Pong"
      [] OTHER -> "InvalidOpCode"

\* put_u32_le: the four bytes of a 32-bit value, least significant first
PutU32LE(n) ==
    << n % 256, (n \div 256) % 256, (n \div 65536) % 256, (n \div 16777216) % 256 >>

\* read_u32_le on four bytes.  The model checker's integers end at 2^31 - 1:
\* a value with the top bit set is read as 2^31 - 1 (it is only ever compared
\* with opcodes and with the few bytes a stream holds)
GetU32LE(b) ==
    IF b[4] >= 128 THEN 2147483647
    ELSE b[1] + 256 * b[2] + 65536 * b[3] + 16777216 * b[4]

\* Data::to_buf: header and payload (`len() as u32` truncates nothing here:
\* the modelled payloads are a few bytes long)
ToBuf(d) ==
    PutU32LE(AsU32(d.opcode)) \o PutU32LE(Len(d.msg)) \o d.msg

\* A frame the relay builds or decodes
Data(op, msg) == [opcode |-> op, msg |-> msg]

\* A frame as a peer puts it on the wire: the peer may use any opcode number
Wire(f) == PutU32LE(f.op) \o PutU32LE(Len(f.msg)) \o f.msg

\* fmt::Display for OpCode: the decimal numeral of the opcode's number
RECURSIVE Decimal(_)
Decimal(n) == IF n < 10 THEN << 48 + n >> ELSE Decimal(n \div 10) \o << 48 + (n % 10) >>

\* String::from_utf8: one- and two-byte sequences (the modelled payloads use
\* no longer ones; any other lead byte is rejected)
RECURSIVE ValidUtf8(_)
ValidUtf8(b) ==
    IF b = << >> THEN TRUE
    ELSE IF b[1] < 128 THEN ValidUtf8(Tail(b))
    ELSE IF b[1] \in 194..223 /\ Len(b) >= 2 /\ b[2] \in 128..191
         THEN ValidUtf8(SubSeq(b, 3, Len(b)))
    ELSE FALSE

(***************************************************************************)
(* Handshake JSON.  A payload is a byte string; 123 and 125 are the braces *)
(* of the object, 99 and 100 stand for the member "client_id":"<digits>"   *)
(* of two applications, 118 for the member "v":1, 44 is the comma, and 32, *)
(* 9, 10, 13 are JSON whitespace.  serde_json skips whitespace between     *)
(* tokens when parsing and writes none when serialising.                   *)
(***************************************************************************)
ClientIds == {99, 100}

JsonWhitespace == {32, 9, 10, 13}

RECURSIVE StripWs(_)
StripWs(b) ==
    IF b = << >> THEN << >>
    ELSE IF b[1] \in JsonWhitespace THEN StripWs(Tail(b))
    ELSE << b[1] >> \o StripWs(Tail(b))

\* Data::to_json_value::<Handshake>: the parsed value keeps the members in
\* the order read; "NoJson" when the text is no object with a client_id
ToJsonValue(msg) ==
    LET t == StripWs(msg) IN
    IF /\ Len(t) >= 3
       /\ t[1] = 123
       /\ t[Len(t)] = 125
       /\ \E i \in 2..(Len(t) - 1) : t[i] \in ClientIds
    THEN [ok |-> TRUE, members |-> SubSeq(t, 2, Len(t) - 1)]
    ELSE [ok |-> FALSE, members |-> << >>]

\* serde_json::to_string(handshake): compact text
ToJsonString(h) == << 123 >> \o h.members \o << 125 >>

(***************************************************************************)
(* One iteration of the frame read loop, as far as the decoded frame (the  *)
(* client read loop, switch/ipc/windows.rs:45-65, and the host inbound     *)
(* pump, discord/ipc/windows.rs:45-68, read the same way).  `b` is what    *)
(* the peer has written and the loop has not consumed yet, `eof` whether   *)
(* the peer has closed.  read_u32_le waits for four bytes and fails at end *)
(* of stream; read_buf does ONE read into the spare capacity of            *)
(* BytesMut::with_capacity(length): `length` bytes, or a fresh chunk of    *)
(* ReserveChunk bytes when the capacity is 0, and returns what is there.   *)
(***************************************************************************)
Outcome(kind, data, rest) == [kind |-> kind, data |-> data, rest |-> rest]

NoData == Data("Frame", << >>)

ReadFrame(b, eof) ==
    IF Len(b) < 4
    THEN Outcome(IF eof THEN "Eof" ELSE "Blocked", NoData, b)
    ELSE LET opcode == FromU32(GetU32LE(SubSeq(b, 1, 4))) IN
         IF opcode = "InvalidOpCode"
         THEN Outcome("InvalidOpCode", NoData, SubSeq(b, 5, Len(b)))
         ELSE IF Len(b) < 8
         THEN Outcome(IF eof THEN "Eof" ELSE "Blocked", NoData, b)
         ELSE LET length == GetU32LE(SubSeq(b, 5, 8))
                  cap    == IF length = 0 THEN ReserveChunk ELSE length
                  n      == Min(cap, Len(b) - 8)
                  buf    == SubSeq(b, 9, 8 + n)
                  rest   == SubSeq(b, 9 + n, Len(b))
              IN IF n = 0
                 THEN Outcome(IF eof THEN "Zero" ELSE "Blocked", NoData, b)
                 ELSE IF ValidUtf8(buf)
                 THEN Outcome("Data", Data(opcode, buf), rest)
                 ELSE Outcome("Utf8", NoData, rest)

(***************************************************************************)
(* Endpoint naming (discord/ipc/mod.rs).  A name discord-ipc-i is the      *)
(* index i.                                                                *)
(***************************************************************************)
RECURSIVE NamesFrom(_, _)
NamesFrom(i, ex) ==
    IF i >= NameCount THEN << >>
    ELSE (IF i \in ex THEN << i >> ELSE << >>) \o NamesFrom(i + 1, ex)

\* names(): the existing names, in index order
Names(ex) == NamesFrom(0, ex)

RECURSIVE NextNameFrom(_, _)
NextNameFrom(i, ex) ==
    IF i >= NameCount THEN -1
    ELSE IF i \notin ex THEN i
    ELSE NextNameFrom(i + 1, ex)

\* A next_name() that never offers discord-ipc-0
NextNameAfterZero(ex) == NextNameFrom(1, ex)

\* next_name(): the first name that does not exist; -1 is NoNameAvailable
NextName(ex) == NextNameFrom(0, ex)

\* An other_ipc_names() without its filter
AllIpcNames(ex, self) == Names(ex)

\* Server::other_ipc_names
OtherIpcNames(ex, self) == SelectSeq(Names(ex), LAMBDA n : n # self)

(***************************************************************************)
(* What the peers send.  A peer frame is an opcode number and a payload.   *)
(***************************************************************************)
HsCompact == << 123, 99, 125 >>
HsSpaced  == << 123, 32, 99, 125 >>

Peer(op, msg) == [op |-> op, msg |-> msg]

ClientFrames ==
    { Peer(0, HsCompact), Peer(0, HsSpaced), Peer(1, << 65 >>), Peer(1, << >>),
      Peer(3, << 65 >>), Peer(3, << >>), Peer(2, << 65 >>) }

PlainFrames == { Peer(0, HsCompact), Peer(1, << 65 >>) }

FanoutFrames == PlainFrames \cup { Peer(1, << >>) }

\* Frames with every opcode number up to MaxOpcode, with one above a byte and
\* with the largest the codec is given; an empty and a non-UTF-8 payload
OpcodeNumbers == (0..MaxOpcode) \cup {257, 2147483647}

CodecFrames ==
    {Peer(op, << 65 >>) : op \in OpcodeNumbers}
        \cup { Peer(0, HsCompact), Peer(1, << >>), Peer(1, << 255 >>) }

HostFrames == { Peer(1, << 66 >>), Peer(1, << >>), Peer(1, << 255 >>) }

(***************************************************************************)
(* State.                                                                  *)
(***************************************************************************)
VARIABLES
    platform,      \* "windows" or "unix": which start() and handle() are built
    exists,        \* the names discord-ipc-i whose path exists
    name,          \* Server.name
    token,         \* Server.token: TRUE once cancelled
    start,         \* start(): "listening", "removed" (POSIX, file deleted), "Ok"
    handler,       \* POSIX accept task: 0 in accept, s in client.handle() of s, -1 aborted
    pipe,          \* per session: "none", "pending" (client connected), "accepted"
    cin,           \* bytes the client has written and the relay has not read
    cinEOF,        \* the client has closed its end
    sent,          \* the frames the client has written or begun, in order (history)
    cpart,         \* bytes of the frame the client has begun and has yet to write
    reader,        \* handle()'s read loop: "idle", "run", or how it ended
    writer,        \* handle()'s writer task: "idle", "run", "done"
    closed,        \* Client.closed
    handshake,     \* Client.handshake, parsed
    clients,       \* Client.discord_ipc_clients: the names of the last setup
    bus,           \* every frame sent on Client.discord_channel, in order
    funnel,        \* frames in the mpsc channel to the writer task
    cout,          \* the buffers written to the client's stream, in order
    hosts,         \* per session: the host connectors opened, in order
    app_data,      \* Client.app_data: "None" or "Some"
    cache,         \* CACHE of discord.rs: the client ids whose metadata is cached
    rpc            \* application_rpc of the session: "idle", or "fetch" (in reqwest::get)

listenerVars == << platform, exists, name, token, start, handler >>
clientVars   == << pipe, cin, cinEOF, sent, cpart >>
sessionVars  == << reader, writer, closed, handshake, clients, bus, funnel, cout >>
lookupVars   == << app_data, cache, rpc >>
vars == << listenerVars, clientVars, sessionVars, hosts, lookupVars >>

NoHandshake == [ok |-> FALSE, members |-> << >>]

(***************************************************************************)
(* A host connector (discord/ipc/windows.rs connect): the outbound pump    *)
(* `w` with its position `cur` in the bus, the inbound pump `r`, and the   *)
(* host's end of the connection.                                           *)
(***************************************************************************)
Connector(n, pos) ==
    [ name  |-> n,       \* endpoint name
      cur   |-> pos,     \* frames of the bus before the subscription or received
      w     |-> "run",   \* outbound pump: "run" or "done"
      r     |-> "run",   \* inbound pump: "run" or "done"
      out   |-> << >>,   \* buffers written to the host, in order
      hin   |-> << >>,   \* bytes the host has written and the pump has not read
      hEOF  |-> FALSE,   \* the host has closed its end
      hsent |-> << >> ]  \* the frames the host has written (history)

RECURSIVE SumLen(_, _)
SumLen(f, S) ==
    IF S = {} THEN 0
    ELSE LET x == CHOOSE y \in S : TRUE IN Len(f[x]) + SumLen(f, S \ {x})

ClientFrameCount == SumLen(sent, Sessions)

RECURSIVE HostFramesIn(_)
HostFramesIn(cs) ==
    IF cs = << >> THEN 0 ELSE Len(cs[1].hsent) + HostFramesIn(Tail(cs))

RECURSIVE HostFrameCount(_)
HostFrameCount(S) ==
    IF S = {} THEN 0
    ELSE LET x == CHOOSE y \in S : TRUE IN HostFramesIn(hosts[x]) + HostFrameCount(S \ {x})

\* No client has connected and the token is not cancelled
NoClients ==
    /\ token = FALSE
    /\ handler = 0
    /\ pipe = [s \in Sessions |-> "none"]
    /\ cin = [s \in Sessions |-> << >>]
    /\ cinEOF = [s \in Sessions |-> FALSE]
    /\ sent = [s \in Sessions |-> << >>]
    /\ cpart = [s \in Sessions |-> << >>]
    /\ reader = [s \in Sessions |-> "idle"]
    /\ writer = [s \in Sessions |-> "idle"]
    /\ closed = [s \in Sessions |-> FALSE]
    /\ handshake = [s \in Sessions |-> NoHandshake]
    /\ clients = [s \in Sessions |-> << >>]
    /\ bus = [s \in Sessions |-> << >>]
    /\ funnel = [s \in Sessions |-> << >>]
    /\ cout = [s \in Sessions |-> << >>]
    /\ hosts = [s \in Sessions |-> << >>]
    /\ app_data = [s \in Sessions |-> "None"]
    /\ cache = {}
    /\ rpc = [s \in Sessions |-> "idle"]

\* The server is bound (Server::new, start()) and no client has connected;
\* `others` are the endpoints other processes hold
InitWith(platforms, others) ==
    /\ platform \in platforms
    /\ \E ex \in others :
          /\ name = NextName(ex)
          /\ exists = ex \cup {NextName(ex)}
    /\ start = "listening"
    /\ NoClients

(***************************************************************************)
(* The peers: clients of the relay, and the hosts it connects to.          *)
(***************************************************************************)
\* The relay has dropped both halves of the client's stream
StreamClosed(s) ==
    /\ pipe[s] = "accepted"
    /\ reader[s] \notin {"idle", "run", "uhandshake", "uloop"}
    /\ writer[s] \in {"idle", "done"}

\* The endpoint takes connections: a listening pipe instance (Windows), the
\* bound socket under its path (POSIX)
Connectable ==
    IF platform = "windows" THEN start = "listening"
    ELSE start = "listening" /\ name \in exists /\ handler # -1

ClientConnect(s) ==
    /\ pipe[s] = "none"
    /\ \A t \in Sessions : t < s => pipe[t] # "none"
    /\ Connectable
    /\ pipe' = [pipe EXCEPT ![s] = "pending"]
    /\ UNCHANGED << listenerVars, cin, cinEOF, sent, cpart, sessionVars, hosts >>
    /\ UNCHANGED lookupVars

ClientSend(s, f, max) ==
    /\ pipe[s] # "none"
    /\ ~cinEOF[s]
    /\ ~StreamClosed(s)
    /\ cpart[s] = << >>
    /\ ClientFrameCount < max
    /\ cin' = [cin EXCEPT ![s] = @ \o Wire(f)]
    /\ sent' = [sent EXCEPT ![s] = Append(@, f)]
    /\ UNCHANGED << listenerVars, pipe, cinEOF, cpart, sessionVars, hosts >>
    /\ UNCHANGED lookupVars

\* The client writes the first n bytes of a frame, the rest is to follow
ClientSendPart(s, f, n, max) ==
    /\ pipe[s] # "none"
    /\ ~cinEOF[s]
    /\ ~StreamClosed(s)
    /\ cpart[s] = << >>
    /\ ClientFrameCount < max
    /\ n \in 1..(Len(Wire(f)) - 1)
    /\ cin' = [cin EXCEPT ![s] = @ \o SubSeq(Wire(f), 1, n)]
    /\ cpart' = [cpart EXCEPT ![s] = SubSeq(Wire(f), n + 1, Len(Wire(f)))]
    /\ sent' = [sent EXCEPT ![s] = Append(@, f)]
    /\ UNCHANGED << listenerVars, pipe, cinEOF, sessionVars, hosts >>
    /\ UNCHANGED lookupVars

\* The client writes the rest of the frame it has begun
ClientSendRest(s) ==
    /\ cpart[s] # << >>
    /\ ~cinEOF[s]
    /\ ~StreamClosed(s)
    /\ cin' = [cin EXCEPT ![s] = @ \o cpart[s]]
    /\ cpart' = [cpart EXCEPT ![s] = << >>]
    /\ UNCHANGED << listenerVars, pipe, cinEOF, sent, sessionVars, hosts >>
    /\ UNCHANGED lookupVars

ClientClose(s) ==
    /\ pipe[s] # "none"
    /\ ~cinEOF[s]
    /\ cinEOF' = [cinEOF EXCEPT ![s] = TRUE]
    /\ cpart' = [cpart EXCEPT ![s] = << >>]
    /\ UNCHANGED << listenerVars, pipe, cin, sent, sessionVars, hosts >>
    /\ UNCHANGED lookupVars

\* The relay has dropped both halves of its stream to the host
HostStreamClosed(c) == c.w = "done" /\ c.r = "done"

HostSend(s, i, f, max) ==
    /\ i \in DOMAIN hosts[s]
    /\ ~hosts[s][i].hEOF
    /\ ~HostStreamClosed(hosts[s][i])
    /\ HostFrameCount(Sessions) < max
    /\ hosts' = [hosts EXCEPT ![s][i].hin = @ \o Wire(f), ![s][i].hsent = Append(@, f)]
    /\ UNCHANGED << listenerVars, clientVars, sessionVars >>
    /\ UNCHANGED lookupVars

HostClose(s, i) ==
    /\ i \in DOMAIN hosts[s]
    /\ ~hosts[s][i].hEOF
    /\ hosts' = [hosts EXCEPT ![s][i].hEOF = TRUE]
    /\ UNCHANGED << listenerVars, clientVars, sessionVars >>
    /\ UNCHANGED lookupVars

\* The signal handler of main.rs cancels the token
Cancel ==
    /\ ~token
    /\ token' = TRUE
    /\ UNCHANGED << platform, exists, name, start, handler, clientVars, sessionVars, hosts >>
    /\ UNCHANGED lookupVars

(***************************************************************************)
(* Client session (switch/ipc/mod.rs Client, switch/ipc/windows.rs handle) *)
(***************************************************************************)
\* Client::ping: the Pong the relay answers with
Pong == Data("Pong", << 34 >> \o Decimal(AsU32("Pong")) \o << 34 >>)

\* The funnel has a sender: the session's own switch_tx, or the clone an
\* inbound pump holds
FunnelSenders(s) ==
    reader[s] = "run" \/ \E i \in DOMAIN hosts[s] : hosts[s][i].r = "run"

\* connect() succeeded for the names at the positions in `ok`
RECURSIVE Connected(_, _, _, _)
Connected(names, ok, i, pos) ==
    IF i > Len(names) THEN << >>
    ELSE (IF i \in ok THEN << Connector(names[i], pos) >> ELSE << >>)
         \o Connected(names, ok, i + 1, pos)

\* handle() returns: the Client is dropped
EndSession(s, how) == reader' = [reader EXCEPT ![s] = how]

\* The client_id of a parsed Handshake
ClientId(h) ==
    LET ms == h.members
        i  == CHOOSE k \in DOMAIN ms :
                  ms[k] \in ClientIds /\ \A j \in 1..(k - 1) : ms[j] \notin ClientIds
    IN ms[i]

\* Client::id: the display identity
Id(s) ==
    IF app_data[s] = "Some" THEN << "name", ClientId(handshake[s]) >>
    ELSE IF handshake[s].ok THEN << "client_id", ClientId(handshake[s]) >>
    ELSE << "Unidentified" >>

\* Client::setup_discord_ipc_clients: a connector for each other endpoint
\* that takes the connection; NoDiscords without one, else the Handshake is
\* serialised and broadcast
SetupDiscordIpcClients(s, h) ==
    \E ok \in SUBSET (1..Len(OtherIpcNames(exists, name))) :
    LET new == Connected(OtherIpcNames(exists, name), ok, 1, Len(bus[s])) IN
    /\ hosts' = [hosts EXCEPT ![s] = @ \o new]
    /\ IF new = << >>
       THEN /\ EndSession(s, "NoDiscords")
            /\ UNCHANGED << clients, bus >>
       ELSE /\ clients' = [clients EXCEPT ![s] = [i \in 1..Len(new) |-> new[i].name]]
            /\ bus' = [bus EXCEPT ![s] = Append(@, Data("Handshake", ToJsonString(h)))]
            /\ UNCHANGED reader

\* Client::handshake as far as application_rpc's look into the cache: a
\* cached id is answered at once and the hosts are set up, any other id
\* leaves the session waiting in reqwest::get
DoHandshake(s, data, rest) ==
    LET h == ToJsonValue(data.msg) IN
    IF ~h.ok
    THEN /\ EndSession(s, "Json")
         /\ cin' = [cin EXCEPT ![s] = rest]
         /\ UNCHANGED << writer, closed, handshake, clients, bus, funnel, cout, hosts >>
         /\ UNCHANGED lookupVars
    ELSE /\ cin' = [cin EXCEPT ![s] = rest]
         /\ handshake' = [handshake EXCEPT ![s] = h]
         /\ UNCHANGED << writer, closed, funnel, cout, cache >>
         /\ IF ClientId(h) \in cache
            THEN /\ app_data' = [app_data EXCEPT ![s] = "Some"]
                 /\ UNCHANGED rpc
                 /\ SetupDiscordIpcClients(s, h)
            ELSE /\ rpc' = [rpc EXCEPT ![s] = "fetch"]
                 /\ UNCHANGED << app_data, reader, clients, bus, hosts >>

\* An application_rpc whose failure ends the session
LookupFatal(s) ==
    /\ reader[s] = "run"
    /\ rpc[s] = "fetch"
    /\ rpc' = [rpc EXCEPT ![s] = "idle"]
    /\ \E found \in BOOLEAN :
          /\ app_data' = [app_data EXCEPT ![s] = IF found THEN "Some" ELSE "None"]
          /\ cache' = IF found THEN cache \cup {ClientId(handshake[s])} ELSE cache
          /\ IF found
             THEN SetupDiscordIpcClients(s, handshake[s])
             ELSE EndSession(s, "Lookup") /\ UNCHANGED << clients, bus, hosts >>
    /\ UNCHANGED << listenerVars, clientVars, writer, closed, handshake, funnel, cout >>

\* An application_rpc that caches its failures too
CachesFailure(s) ==
    /\ reader[s] = "run"
    /\ rpc[s] = "fetch"
    /\ rpc' = [rpc EXCEPT ![s] = "idle"]
    /\ \E found \in BOOLEAN :
          /\ app_data' = [app_data EXCEPT ![s] = IF found THEN "Some" ELSE "None"]
          /\ cache' = cache \cup {ClientId(handshake[s])}
    /\ SetupDiscordIpcClients(s, handshake[s])
    /\ UNCHANGED << listenerVars, clientVars, writer, closed, handshake, funnel, cout >>

\* application_rpc from reqwest::get on, and the rest of Client::handshake:
\* the fetch succeeds and its result is cached, or it fails and nothing is
\* cached; either way the hosts are set up
ApplicationRpc(s) ==
    /\ reader[s] = "run"
    /\ rpc[s] = "fetch"
    /\ rpc' = [rpc EXCEPT ![s] = "idle"]
    /\ \E found \in BOOLEAN :
          /\ app_data' = [app_data EXCEPT ![s] = IF found THEN "Some" ELSE "None"]
          /\ cache' = IF found THEN cache \cup {ClientId(handshake[s])} ELSE cache
    /\ SetupDiscordIpcClients(s, handshake[s])
    /\ UNCHANGED << listenerVars, clientVars, writer, closed, handshake, funnel, cout >>

\* Client::ping
DoPing(s, rest) ==
    /\ cin' = [cin EXCEPT ![s] = rest]
    /\ IF writer[s] = "done"
       THEN EndSession(s, "SendError") /\ UNCHANGED funnel
       ELSE funnel' = [funnel EXCEPT ![s] = Append(@, Pong)] /\ UNCHANGED reader
    /\ UNCHANGED << writer, closed, handshake, clients, bus, cout, hosts >>
    /\ UNCHANGED lookupVars

\* Client::close, and the `if client.closed { break }` that follows it
DoClose(s, rest) ==
    /\ cin' = [cin EXCEPT ![s] = rest]
    /\ closed' = [closed EXCEPT ![s] = TRUE]
    /\ EndSession(s, "Ok")
    /\ UNCHANGED << writer, handshake, clients, bus, funnel, cout, hosts >>
    /\ UNCHANGED lookupVars

\* A relay() onto one bus that all sessions share
SharedRelay(s, data, rest) ==
    /\ cin' = [cin EXCEPT ![s] = rest]
    /\ bus' = [t \in Sessions |-> Append(bus[t], data)]
    /\ UNCHANGED << reader, writer, closed, handshake, clients, funnel, cout, hosts >>
    /\ UNCHANGED lookupVars

\* Client::relay
DoRelay(s, data, rest) ==
    /\ cin' = [cin EXCEPT ![s] = rest]
    /\ bus' = [bus EXCEPT ![s] = Append(@, data)]
    /\ UNCHANGED << reader, writer, closed, handshake, clients, funnel, cout, hosts >>
    /\ UNCHANGED lookupVars

\* Client::handle
Dispatch(s, data, rest) ==
    CASE data.opcode = "Handshake" -> DoHandshake(s, data, rest)
      [] data.opcode = "Ping"      -> DoPing(s, rest)
      [] data.opcode = "Close"     -> DoClose(s, rest)
      [] OTHER                     -> DoRelay(s, data, rest)

\* One iteration of handle()'s read loop
SessionRead(s) ==
    /\ reader[s] = "run"
    /\ rpc[s] = "idle"
    /\ LET o == ReadFrame(cin[s], cinEOF[s]) IN
       /\ o.kind # "Blocked"
       /\ IF o.kind = "Data"
          THEN Dispatch(s, o.data, o.rest)
          ELSE /\ EndSession(s, IF o.kind = "Zero" THEN "Ok" ELSE o.kind)
               /\ cin' = [cin EXCEPT ![s] = o.rest]
               /\ UNCHANGED << writer, closed, handshake, clients, bus, funnel, cout, hosts >>
               /\ UNCHANGED lookupVars
    /\ UNCHANGED << listenerVars, pipe, cinEOF, sent, cpart >>

\* One iteration of handle()'s writer task
SessionWrite(s) ==
    /\ writer[s] = "run"
    /\ IF funnel[s] # << >>
       THEN IF cinEOF[s]
            THEN /\ writer' = [writer EXCEPT ![s] = "done"]
                 /\ funnel' = [funnel EXCEPT ![s] = << >>]
                 /\ UNCHANGED cout
            ELSE /\ cout' = [cout EXCEPT ![s] = Append(@, ToBuf(Head(funnel[s])))]
                 /\ funnel' = [funnel EXCEPT ![s] = Tail(@)]
                 /\ UNCHANGED writer
       ELSE /\ ~FunnelSenders(s)
            /\ writer' = [writer EXCEPT ![s] = "done"]
            /\ UNCHANGED << funnel, cout >>
    /\ UNCHANGED << listenerVars, clientVars, reader, closed, handshake, clients, bus, hosts >>
    /\ UNCHANGED lookupVars

(***************************************************************************)
(* Host connector pumps (discord/ipc/windows.rs connect)                   *)
(***************************************************************************)
\* The broadcast Sender lives in the Client
BusOpen(s) == reader[s] = "run"

\* An outbound pump that drops the frames it missed and carries on with the
\* oldest frame the bus still holds
SkippingPump(c, b, open) ==
    IF Len(b) - c.cur > BusCapacity
    THEN [c EXCEPT !.cur = Len(b) - BusCapacity]
    ELSE IF c.cur < Len(b)
    THEN IF c.hEOF
         THEN [c EXCEPT !.w = "done"]
         ELSE [c EXCEPT !.cur = @ + 1, !.out = Append(@, ToBuf(b[c.cur + 1]))]
    ELSE IF open THEN c ELSE [c EXCEPT !.w = "done"]

\* One iteration of the outbound pump
\* recv() fails with Lagged once more than BusCapacity frames are unread, and
\* with Closed once the bus is closed and drained; a write to a host that has
\* closed fails
OutboundPump(c, b, open) ==
    IF Len(b) - c.cur > BusCapacity
    THEN [c EXCEPT !.w = "done"]
    ELSE IF c.cur < Len(b)
    THEN IF c.hEOF
         THEN [c EXCEPT !.w = "done"]
         ELSE [c EXCEPT !.cur = @ + 1, !.out = Append(@, ToBuf(b[c.cur + 1]))]
    ELSE IF open THEN c ELSE [c EXCEPT !.w = "done"]

HostWrite(s, i) ==
    /\ i \in DOMAIN hosts[s]
    /\ hosts[s][i].w = "run"
    /\ hosts[s][i].cur < Len(bus[s]) \/ ~BusOpen(s)
    /\ hosts' = [hosts EXCEPT ![s][i] = OutboundPump(@, bus[s], BusOpen(s))]
    /\ UNCHANGED << listenerVars, clientVars, sessionVars >>
    /\ UNCHANGED lookupVars

\* An inbound pump whose InvalidOpCode ends the session as well
HostReadFatal(s, i) ==
    /\ i \in DOMAIN hosts[s]
    /\ hosts[s][i].r = "run"
    /\ LET o == ReadFrame(hosts[s][i].hin, hosts[s][i].hEOF) IN
       /\ o.kind # "Blocked"
       /\ IF o.kind \in {"Data", "Utf8"}
          THEN /\ hosts' = [hosts EXCEPT ![s][i].hin = o.rest]
               /\ IF o.kind = "Data" /\ writer[s] = "run"
                  THEN funnel' = [funnel EXCEPT ![s] = Append(@, o.data)]
                  ELSE UNCHANGED funnel
               /\ UNCHANGED reader
          ELSE /\ hosts' = [hosts EXCEPT ![s][i].hin = o.rest, ![s][i].r = "done"]
               /\ reader' = [reader EXCEPT ![s] =
                                 IF o.kind = "InvalidOpCode" /\ @ = "run" THEN o.kind ELSE @]
               /\ UNCHANGED funnel
    /\ UNCHANGED << listenerVars, clientVars, writer, closed, handshake, clients, bus, cout >>
    /\ UNCHANGED lookupVars

\* One iteration of the inbound pump
HostRead(s, i) ==
    /\ i \in DOMAIN hosts[s]
    /\ hosts[s][i].r = "run"
    /\ LET o == ReadFrame(hosts[s][i].hin, hosts[s][i].hEOF) IN
       /\ o.kind # "Blocked"
       /\ IF o.kind \in {"Data", "Utf8"}
          THEN /\ hosts' = [hosts EXCEPT ![s][i].hin = o.rest]
               /\ IF o.kind = "Data" /\ writer[s] = "run"
                  THEN funnel' = [funnel EXCEPT ![s] = Append(@, o.data)]
                  ELSE UNCHANGED funnel
          ELSE /\ hosts' = [hosts EXCEPT ![s][i].hin = o.rest, ![s][i].r = "done"]
               /\ UNCHANGED funnel
    /\ UNCHANGED << listenerVars, clientVars, reader, writer, closed, handshake, clients, bus, cout >>
    /\ UNCHANGED lookupVars

(***************************************************************************)
(* Server creation (switch/ipc/mod.rs Server::new) and the bind at the top *)
(* of start(); other processes bind endpoints of their own.                *)
(***************************************************************************)
\* Server::new: next_name()? and the Server value
ServerNew ==
    /\ start = "unbound"
    /\ name' = NextName(exists)
    /\ start' = IF NextName(exists) = -1 THEN "NoNameAvailable" ELSE "created"
    /\ UNCHANGED << platform, exists, token, handler, clientVars, sessionVars, hosts >>
    /\ UNCHANGED lookupVars

\* A start() that takes the name over when it has been taken
BindOver ==
    /\ start = "created"
    /\ start' = "listening"
    /\ exists' = exists \cup {name}
    /\ UNCHANGED << platform, name, token, handler, clientVars, sessionVars, hosts >>
    /\ UNCHANGED lookupVars

\* start(): the first pipe instance is created under the server's name
\* (Windows), the socket is bound to its path (POSIX); either fails when the
\* name has been taken since Server::new
Bind ==
    /\ start = "created"
    /\ IF name \in exists
       THEN start' = "BindError" /\ UNCHANGED exists
       ELSE start' = "listening" /\ exists' = exists \cup {name}
    /\ UNCHANGED << platform, name, token, handler, clientVars, sessionVars, hosts >>
    /\ UNCHANGED lookupVars

\* Another process binds one of the names
EndpointAppears(i) ==
    /\ i \notin exists
    /\ exists' = exists \cup {i}
    /\ UNCHANGED << platform, name, token, start, handler, clientVars, sessionVars, hosts >>
    /\ UNCHANGED lookupVars

(***************************************************************************)
(* Listener, Windows (switch/ipc/windows.rs start): each iteration selects *)
(* between pipe_server.connect() and token.cancelled(); select! polls its  *)
(* branches in random order, so either may win when both are ready.        *)
(***************************************************************************)
Accept(s) ==
    /\ platform = "windows"
    /\ start = "listening"
    /\ pipe[s] = "pending"
    /\ pipe' = [pipe EXCEPT ![s] = "accepted"]
    /\ reader' = [reader EXCEPT ![s] = "run"]
    /\ writer' = [writer EXCEPT ![s] = "run"]
    /\ UNCHANGED << listenerVars, cin, cinEOF, sent, cpart, closed, handshake, clients, bus, funnel, cout, hosts >>
    /\ UNCHANGED lookupVars

Cancelled ==
    /\ platform = "windows"
    /\ start = "listening"
    /\ token
    /\ start' = "Ok"
    /\ UNCHANGED << platform, exists, name, token, handler, clientVars, sessionVars, hosts >>
    /\ UNCHANGED lookupVars

(***************************************************************************)
(* Listener, POSIX (switch/ipc/unix.rs start): the accept loop is a task   *)
(* of its own and awaits client.handle() inside the loop; start() waits    *)
(* for the token, removes the socket file and aborts the task.             *)
(***************************************************************************)
UnixAccept(s) ==
    /\ platform = "unix"
    /\ handler = 0
    /\ pipe[s] = "pending"
    /\ pipe' = [pipe EXCEPT ![s] = "accepted"]
    /\ handler' = s
    /\ reader' = [reader EXCEPT ![s] = "uhandshake"]
    /\ UNCHANGED << platform, exists, name, token, start, cin, cinEOF, sent, cpart >>
    /\ UNCHANGED << writer, closed, handshake, clients, bus, funnel, cout, hosts >>
    /\ UNCHANGED lookupVars

\* handle() of unix.rs up to its loop: handshake() reads what the client has
\* written, relay() connects to the other endpoints
UnixHandshake(s) ==
    /\ handler = s
    /\ reader[s] = "uhandshake"
    /\ cin[s] # << >> \/ cinEOF[s]
    /\ cin' = [cin EXCEPT ![s] = << >>]
    /\ IF cin[s] = << >>
       THEN reader' = [reader EXCEPT ![s] = "Closed"] /\ handler' = 0
       ELSE \E ok \in SUBSET (1..Len(OtherIpcNames(exists, name))) :
            IF ok = {}
            THEN reader' = [reader EXCEPT ![s] = "NoDiscords"] /\ handler' = 0
            ELSE reader' = [reader EXCEPT ![s] = "uloop"] /\ UNCHANGED handler
    /\ UNCHANGED << platform, exists, name, token, start, pipe, cinEOF, sent, cpart >>
    /\ UNCHANGED << writer, closed, handshake, clients, bus, funnel, cout, hosts >>
    /\ UNCHANGED lookupVars

\* handle() of unix.rs, one turn of its select loop: client bytes are
\* forwarded, end of stream or the token ends the loop
UnixLoop(s) ==
    /\ handler = s
    /\ reader[s] = "uloop"
    /\ \/ /\ cin[s] # << >>
          /\ cin' = [cin EXCEPT ![s] = << >>]
          /\ UNCHANGED << reader, handler >>
       \/ /\ cin[s] = << >> /\ cinEOF[s]
          /\ reader' = [reader EXCEPT ![s] = "Ok"]
          /\ handler' = 0
          /\ UNCHANGED cin
       \/ /\ token
          /\ reader' = [reader EXCEPT ![s] = "Ok"]
          /\ handler' = 0
          /\ UNCHANGED cin
    /\ UNCHANGED << platform, exists, name, token, start, pipe, cinEOF, sent, cpart >>
    /\ UNCHANGED << writer, closed, handshake, clients, bus, funnel, cout, hosts >>
    /\ UNCHANGED lookupVars

\* A start() that goes on to abort the accept task with the socket file left behind
KeepFile ==
    /\ platform = "unix"
    /\ start = "listening"
    /\ token
    /\ start' = "removed"
    /\ UNCHANGED << platform, exists, name, token, handler, clientVars, sessionVars, hosts >>
    /\ UNCHANGED lookupVars

\* start(): token.cancelled() has returned; fs::remove_file
UnixRemoveFile ==
    /\ platform = "unix"
    /\ start = "listening"
    /\ token
    /\ exists' = exists \ {name}
    /\ start' = "removed"
    /\ UNCHANGED << platform, name, token, handler, clientVars, sessionVars, hosts >>
    /\ UNCHANGED lookupVars

\* start(): handler.abort() and handler.await; the session inside the accept
\* task is dropped with it
UnixAbort ==
    /\ platform = "unix"
    /\ start = "removed"
    /\ start' = "Ok"
    /\ handler' = -1
    /\ reader' = [s \in Sessions |-> IF handler = s THEN "Aborted" ELSE reader[s]]
    /\ UNCHANGED << platform, exists, name, token, clientVars >>
    /\ UNCHANGED << writer, closed, handshake, clients, bus, funnel, cout, hosts >>
    /\ UNCHANGED lookupVars

(***************************************************************************)
(* Specifications                                                          *)
(***************************************************************************)
Slots == 1..(MaxClientFrames * MaxHosts)

\* Spec: one Windows session with at most one host; the client sends any of
\* ClientFrames.
Init == InitWith({"windows"}, {{}, {1}})

RelayStep ==
    \/ Accept(1)
    \/ SessionRead(1)
    \/ ApplicationRpc(1)
    \/ SessionWrite(1)
    \/ \E i \in Slots : HostWrite(1, i)
    \/ \E i \in Slots : HostRead(1, i)

PeerStep ==
    \/ ClientConnect(1)
    \/ \E f \in ClientFrames : ClientSend(1, f, MaxClientFrames)
    \/ ClientClose(1)
    \/ \E i \in Slots : HostClose(1, i)

Next == RelayStep \/ PeerStep

Spec == Init /\ [][Next]_vars

\* SpecFunnel: one Windows session with one host that writes frames.
InitFunnel == InitWith({"windows"}, {{1}})

FunnelPeerStep ==
    \/ ClientConnect(1)
    \/ \E f \in PlainFrames : ClientSend(1, f, MaxFunnelClientFrames)
    \/ ClientClose(1)
    \/ \E i \in Slots, f \in HostFrames : HostSend(1, i, f, MaxHostFrames)
    \/ \E i \in Slots : HostClose(1, i)

NextFunnel == RelayStep \/ FunnelPeerStep

SpecFunnel == InitFunnel /\ [][NextFunnel]_vars

\* SpecFanout: one Windows session with MaxHosts hosts and a client that
\* sends its Handshake first and only once.
InitFanout == InitWith({"windows"}, {1..MaxHosts})

FanoutPeerStep ==
    \/ ClientConnect(1)
    \/ \E f \in {g \in FanoutFrames : g.op = 0 <=> sent[1] = << >>} :
          ClientSend(1, f, MaxClientFrames)
    \/ ClientClose(1)
    \/ \E i \in Slots : HostClose(1, i)

NextFanout == RelayStep \/ FanoutPeerStep

SpecFanout == InitFanout /\ [][NextFanout]_vars

\* SpecListener: both listeners, MaxSessions clients that write Handshakes,
\* one host that stays connected and silent: its inbound pumps wait.
InitListener == InitWith({"windows", "unix"}, {{1}})

ListenerStep ==
    \/ \E s \in Sessions : Accept(s)
    \/ Cancelled
    \/ \E s \in Sessions : UnixAccept(s)
    \/ \E s \in Sessions : UnixHandshake(s)
    \/ \E s \in Sessions : UnixLoop(s)
    \/ UnixRemoveFile
    \/ UnixAbort
    \/ \E s \in Sessions : SessionRead(s)
    \/ \E s \in Sessions : ApplicationRpc(s)
    \/ \E s \in Sessions : SessionWrite(s)
    \/ \E s \in Sessions, i \in Slots : HostWrite(s, i)

ListenerPeerStep ==
    \/ \E s \in Sessions : ClientConnect(s)
    \/ \E s \in Sessions : ClientSend(s, Peer(0, HsCompact), MaxListenerFrames)
    \/ \E s \in Sessions : ClientClose(s)
    \/ Cancel

NextListener == ListenerStep \/ ListenerPeerStep

SpecListener == InitListener /\ [][NextListener]_vars

\* SpecNames: the server is created and bound among any set of existing
\* endpoints, and its first client handshakes.
AllNames == 0..(NameCount - 1)

InitNames ==
    /\ platform = "windows"
    /\ exists \in SUBSET AllNames
    /\ name = -1
    /\ start = "unbound"
    /\ NoClients

NextNames ==
    \/ ServerNew
    \/ Bind
    \/ \E i \in AllNames : EndpointAppears(i)
    \/ ClientConnect(1)
    \/ Accept(1)
    \/ \E f \in {g \in PlainFrames : g.op = 0 <=> sent[1] = << >>} :
          ClientSend(1, f, MaxNamesFrames)
    \/ SessionRead(1)
    \/ ApplicationRpc(1)

SpecNames == InitNames /\ [][NextNames]_vars

\* SpecCodec: one Windows session with one host; the client writes frames
\* with valid and invalid opcode numbers.
InitCodec == InitWith({"windows"}, {{1}})

CodecPeerStep ==
    \/ ClientConnect(1)
    \/ \E f \in CodecFrames : ClientSend(1, f, MaxCodecFrames)
    \/ ClientClose(1)
    \/ \E i \in Slots : HostClose(1, i)

NextCodec == RelayStep \/ CodecPeerStep

SpecCodec == InitCodec /\ [][NextCodec]_vars

\* SpecLag: one Windows session with two hosts, so that one can keep up while
\* the other falls behind; the client writes one Handshake and then Frames,
\* more than the bus holds; a connector that is not scheduled is a slow one.
LagFrames == { Peer(0, HsCompact), Peer(1, << 65 >>) }

InitLag == InitWith({"windows"}, {{1, 2}})

LagPeerStep ==
    \/ ClientConnect(1)
    \/ \E f \in {g \in LagFrames : g.op = 0 <=> sent[1] = << >>} :
          ClientSend(1, f, MaxLagFrames)
    \/ ClientClose(1)

LagRelayStep ==
    \/ Accept(1)
    \/ SessionRead(1)
    \/ ApplicationRpc(1)
    \/ SessionWrite(1)
    \/ \E i \in Slots : HostWrite(1, i)

NextLag == LagRelayStep \/ LagPeerStep

SpecLag == InitLag /\ [][NextLag]_vars

\* SpecPartial: one Windows session with one host; the client writes a
\* Handshake and then Frames of two payload bytes, whole or in two writes
\* with the cut inside the header, after it or inside the payload.
PartFrame == Peer(1, << 65, 66 >>)

PartCuts == {4, 8, 9}

InitPartial == InitWith({"windows"}, {{1}})

PartialPeerStep ==
    \/ ClientConnect(1)
    \/ \E f \in {g \in {Peer(0, HsCompact), PartFrame} : g.op = 0 <=> sent[1] = << >>} :
          ClientSend(1, f, MaxPartFrames)
    \/ \E n \in PartCuts :
          sent[1] # << >> /\ ClientSendPart(1, PartFrame, n, MaxPartFrames)
    \/ ClientSendRest(1)
    \/ ClientClose(1)

NextPartial == LagRelayStep \/ PartialPeerStep

SpecPartial == InitPartial /\ [][NextPartial]_vars

\* SpecContain: one Windows session with two hosts; after its Handshake the
\* client writes Frames with a valid or an invalid opcode number, and so do
\* the hosts.
ContainFrames == { Peer(0, HsCompact), Peer(1, << 65 >>), Peer(7, << 65 >>) }

ContainHostFrames == { Peer(1, << 66 >>), Peer(7, << 66 >>) }

InitContain == InitWith({"windows"}, {{1, 2}})

ContainPeerStep ==
    \/ ClientConnect(1)
    \/ \E f \in {g \in ContainFrames : g.op = 0 <=> sent[1] = << >>} :
          ClientSend(1, f, MaxContainFrames)
    \/ \E i \in Slots, f \in ContainHostFrames : HostSend(1, i, f, MaxContainHostFrames)

NextContain == RelayStep \/ ContainPeerStep

SpecContain == InitContain /\ [][NextContain]_vars

\* SpecBind: the server is created and bound, on either platform, while other
\* processes bind names below MaxBindNames; a client connects, the token is
\* cancelled.
BindNames == 0..(MaxBindNames - 1)

InitBind ==
    /\ platform \in {"windows", "unix"}
    /\ exists \in SUBSET BindNames
    /\ name = -1
    /\ start = "unbound"
    /\ NoClients

NextBind ==
    \/ ServerNew
    \/ Bind
    \/ \E i \in BindNames : EndpointAppears(i)
    \/ ClientConnect(1)
    \/ Accept(1)
    \/ UnixAccept(1)
    \/ Cancel
    \/ Cancelled
    \/ UnixRemoveFile
    \/ UnixAbort

SpecBind == InitBind /\ [][NextBind]_vars

\* SpecIso: two Windows sessions at once, one host; each client writes a
\* Handshake and Frames of its own, the host writes on each connection a
\* Frame that tells the connection.
IsoSessions == {1, 2}

IsoHandshake(s) == Peer(0, << 123, IF s = 1 THEN 99 ELSE 100, 125 >>)

IsoFrame(s) == Peer(1, << 70 + s >>)

IsoHostFrame(s) == Peer(1, << 80 + s >>)

InitIso == InitWith({"windows"}, {{1}})

NextIso ==
    \/ \E s \in IsoSessions : ClientConnect(s)
    \/ \E s \in IsoSessions : Accept(s)
    \/ \E s \in IsoSessions :
          ClientSend(s, IF sent[s] = << >> THEN IsoHandshake(s) ELSE IsoFrame(s), MaxIsoFrames)
    \/ \E s \in IsoSessions : SessionRead(s)
    \/ \E s \in IsoSessions : ApplicationRpc(s)
    \/ \E s \in IsoSessions : SessionWrite(s)
    \/ \E s \in IsoSessions : HostWrite(s, 1)
    \/ \E s \in IsoSessions : HostRead(s, 1)
    \/ \E s \in IsoSessions : HostSend(s, 1, IsoHostFrame(s), MaxIsoHostFrames)

SpecIso == InitIso /\ [][NextIso]_vars

\* SpecCache: two Windows sessions whose clients write Handshakes with one of
\* two client ids; their lookups overlap.
CacheFrames == { Peer(0, << 123, c, 125 >>) : c \in ClientIds }

InitCache == InitWith({"windows"}, {{1}})

NextCache ==
    \/ \E s \in IsoSessions : ClientConnect(s)
    \/ \E s \in IsoSessions : Accept(s)
    \/ \E s \in IsoSessions, f \in CacheFrames : ClientSend(s, f, MaxCacheFrames)
    \/ \E s \in IsoSessions : SessionRead(s)
    \/ \E s \in IsoSessions : ApplicationRpc(s)

SpecCache == InitCache /\ [][NextCache]_vars

\* FairSpecListener: the listener's own steps are taken once they stay
\* possible: start() is polled by the runtime until it returns
FairSpecListener ==
    /\ InitListener
    /\ [][NextListener]_vars
    /\ WF_vars(Cancelled)
    /\ WF_vars(UnixRemoveFile)
    /\ WF_vars(UnixAbort)

(***************************************************************************)
(* Properties.  Buffers seen by a peer are compared with the frames the    *)
(* other side wrote, byte for byte.                                        *)
(***************************************************************************)
OpOf(buf) == GetU32LE(SubSeq(buf, 1, 4))

RECURSIVE Keep(_, _)
Keep(bufs, ops) ==
    IF bufs = << >> THEN << >>
    ELSE (IF OpOf(Head(bufs)) \in ops THEN << Head(bufs) >> ELSE << >>)
         \o Keep(Tail(bufs), ops)

WireAll(fs) == [k \in 1..Len(fs) |-> Wire(fs[k])]

RECURSIVE IsSubseq(_, _)
IsSubseq(a, b) ==
    IF a = << >> THEN TRUE
    ELSE IF b = << >> THEN FALSE
    ELSE IF Head(a) = Head(b) THEN IsSubseq(Tail(a), Tail(b))
    ELSE IsSubseq(a, Tail(b))

IsPrefix(a, b) == Len(a) <= Len(b) /\ SubSeq(b, 1, Len(a)) = a

IsSegment(a, b) ==
    \E k \in 0..Len(b) : k + Len(a) <= Len(b) /\ SubSeq(b, k + 1, k + Len(a)) = a

RECURSIVE AfterFirstHandshake(_)
AfterFirstHandshake(fs) ==
    IF fs = << >> THEN << >>
    ELSE IF Head(fs).op = 0 THEN Tail(fs)
    ELSE AfterFirstHandshake(Tail(fs))

RECURSIVE Count(_, _)
Count(seq, x) ==
    IF seq = << >> THEN 0
    ELSE (IF Head(seq) = x THEN 1 ELSE 0) + Count(Tail(seq), x)

\* The frames a host may be handed: opcodes Frame and Pong
Relayed == {1, 4}

\* No step of the relay is possible: every task is waiting for a peer
RelayIdle == ~ENABLED RelayStep

\* C1: the Frame/Pong frames a host connector has received are, in order and
\* without duplicates, frames the client sent.
FanoutOrdering ==
    \A s \in Sessions : \A i \in DOMAIN hosts[s] :
        IsSubseq(Keep(hosts[s][i].out, Relayed), Keep(WireAll(sent[s]), Relayed))

\* C2: every Handshake frame a host receives is, byte for byte, a Handshake
\* frame the client sent.
HandshakeVerbatim ==
    \A s \in Sessions : \A i \in DOMAIN hosts[s] : \A k \in DOMAIN hosts[s][i].out :
        OpOf(hosts[s][i].out[k]) = 0 =>
            \E j \in DOMAIN sent[s] :
                sent[s][j].op = 0 /\ hosts[s][i].out[k] = Wire(sent[s][j])

\* C3: the first frame a host receives is a Handshake, and the Frame/Pong
\* frames after it are an unbroken run of the frames the client sent after
\* its Handshake, in the client's order.
HandshakeFirst ==
    \A s \in Sessions : \A i \in DOMAIN hosts[s] :
        LET out == hosts[s][i].out IN
        out # << >> =>
            /\ OpOf(out[1]) = 0
            /\ IsSegment(Keep(Tail(out), Relayed),
                         Keep(WireAll(AfterFirstHandshake(sent[s])), Relayed))

\* C4: with the session relaying and the client connected, once the relay
\* can take no further step every frame a host has written has been written
\* to the client, in the host's order.
FunnelDelivers ==
    \A s \in Sessions :
        (reader[s] = "run" /\ ~cinEOF[s] /\ RelayIdle) =>
            \A i \in DOMAIN hosts[s] : IsSubseq(WireAll(hosts[s][i].hsent), cout[s])

\* C5: no Ping reaches the bus or a host, and with the session relaying and
\* the client connected, once the relay can take no further step the client
\* has been written one Pong for each Ping it sent.
PingPong ==
    \A s \in Sessions :
        /\ \A k \in DOMAIN bus[s] : bus[s][k].opcode # "Ping"
        /\ \A i \in DOMAIN hosts[s] : Keep(hosts[s][i].out, {3}) = << >>
        /\ (reader[s] = "run" /\ ~cinEOF[s] /\ RelayIdle) =>
               Count(cout[s], ToBuf(Pong)) = Len(Keep(WireAll(sent[s]), {3}))

\* C6: a session that failed with NoDiscords has its tasks ended and its
\* client's stream closed once the relay can take no further step.
NoDiscordsTearsDown ==
    \A s \in Sessions :
        (reader[s] = "NoDiscords" /\ RelayIdle) =>
            /\ StreamClosed(s)
            /\ \A i \in DOMAIN hosts[s] : HostStreamClosed(hosts[s][i])

\* A host has failed: its peer closed, or one of its pumps ended
Failed(c) == c.hEOF \/ c.w = "done" \/ c.r = "done"

\* C7: when a host of a session has failed, the session is still relaying
\* unless its client ended it, and what every other host has received after
\* the Handshake is what the client sent after it, frame for frame in order.
HostIsolation ==
    \A s \in Sessions : \A i, j \in DOMAIN hosts[s] :
        (i # j /\ Failed(hosts[s][i]) /\ ~Failed(hosts[s][j])) =>
            /\ reader[s] = "run" \/ cinEOF[s] \/ closed[s]
            /\ IsPrefix(Keep(hosts[s][j].out, Relayed),
                        Keep(WireAll(AfterFirstHandshake(sent[s])), Relayed))

\* The connections the listener has accepted
Accepted == {s \in Sessions : pipe[s] = "accepted"}

\* C8, as stated: from the moment the token is cancelled no connection is
\* accepted.
NoAcceptAfterSignal == [][token => Accepted' = Accepted]_vars

\* start() has returned
Returned == start = "Ok"

\* C8, amended: once the token is cancelled start() eventually returns; once
\* it has returned no connection is accepted, and on POSIX the socket file
\* no longer exists.
ListenerShutdown ==
    /\ token ~> Returned
    /\ [][Returned => Accepted' = Accepted]_vars
    /\ [](Returned /\ platform = "unix" => name \notin exists)

\* start() has returned on POSIX and left a client that had connected unaccepted
ListenerShutdownWitness ==
    /\ Returned
    /\ platform = "unix"
    /\ \E s \in Sessions : pipe[s] = "pending"

\* C9: after the token is cancelled, once the relay can take no further step
\* every accepted client's stream is closed and both pumps of every host
\* connector have ended.
CancellationReachesTasks ==
    \A s \in Sessions :
        (token /\ ~ENABLED ListenerStep /\ pipe[s] = "accepted") =>
            /\ StreamClosed(s)
            /\ \A i \in DOMAIN hosts[s] : HostStreamClosed(hosts[s][i])

\* C10: while start() is listening, a client that has connected can be
\* accepted whatever the sessions accepted before it are doing.
AcceptDetached ==
    \A s \in Sessions :
        (start = "listening" /\ pipe[s] = "pending") =>
            ENABLED (Accept(s) \/ UnixAccept(s))

\* C11: a session whose client's first frame is not a Handshake broadcasts
\* nothing, answers nothing and connects to no host.
AwaitingHandshake ==
    \A s \in Sessions :
        (sent[s] # << >> /\ sent[s][1].op # 0) =>
            /\ bus[s] = << >>
            /\ funnel[s] = << >> /\ cout[s] = << >>
            /\ hosts[s] = << >>

\* C12: Server::new takes the smallest name that does not exist; it fails
\* with NoNameAvailable exactly when all ten exist, and then nothing is bound.
NameAllocation ==
    /\ [][(start = "unbound" /\ start' # "unbound") =>
              IF exists = AllNames
              THEN name' = -1 /\ start' = "NoNameAvailable" /\ exists' = exists
              ELSE /\ name' \in AllNames \ exists
                   /\ \A j \in AllNames : j < name' => j \in exists
                   /\ start' = "created"]_vars
    /\ [](start = "NoNameAvailable" => ~ENABLED Bind /\ ~ENABLED Accept(1))

\* The server took discord-ipc-2, the first gap among the existing names
NameAllocationWitness ==
    start = "listening" /\ name = 2 /\ {0, 1, 5} \subseteq exists

\* C13: other_ipc_names is the existing names without the server's own, in
\* ascending order, and no host connector is opened to the server's name.
OtherNames ==
    LET o == OtherIpcNames(exists, name) IN
    /\ {o[k] : k \in DOMAIN o} = (exists \cap AllNames) \ {name}
    /\ \A k \in DOMAIN o : k > 1 => o[k - 1] < o[k]
    /\ \A s \in Sessions : \A i \in DOMAIN hosts[s] : hosts[s][i].name # name

\* The server holds discord-ipc-1 and a session has connected to 0 and to 2
OtherNamesWitness ==
    /\ start = "listening" /\ name = 1
    /\ \E i, j \in DOMAIN hosts[1] : hosts[1][i].name = 0 /\ hosts[1][j].name = 2

\* C14: every frame with an opcode in 0..4 and a UTF-8 payload is decoded,
\* from the bytes to_buf makes of it, as the same opcode and payload with
\* nothing left over.
RoundTrip ==
    \A s \in Sessions : \A k \in DOMAIN sent[s] :
        LET f == sent[s][k]
            d == Data(FromU32(f.op), f.msg)
        IN (f.op \in 0..4 /\ ValidUtf8(f.msg)) =>
               ReadFrame(ToBuf(d), FALSE) = Outcome("Data", d, << >>)

\* C15: from_u32 gives, for each of 0..4, the opcode with that number, and
\* InvalidOpCode for every other number; a session ends with InvalidOpCode
\* only on such a number.
OpcodeTotality ==
    /\ FromU32(0) = "Handshake" /\ FromU32(1) = "Frame" /\ FromU32(2) = "Close"
    /\ FromU32(3) = "Ping" /\ FromU32(4) = "Pong"
    /\ \A u \in OpcodeNumbers :
          IF u \in 0..4 THEN FromU32(u) \in OpCodes /\ AsU32(FromU32(u)) = u
          ELSE FromU32(u) = "InvalidOpCode"
    /\ \A s \in Sessions :
          /\ reader[s] = "InvalidOpCode" => \E k \in DOMAIN sent[s] : sent[s][k].op \notin 0..4
          /\ (sent[s] # << >> /\ sent[s][1].op \notin 0..4
                 /\ pipe[s] = "accepted" /\ ~ENABLED SessionRead(s)) =>
                 reader[s] = "InvalidOpCode"

\* The session has ended on opcode number 257, whose low byte is Frame's
OpcodeTotalityWitness ==
    reader[1] = "InvalidOpCode" /\ sent[1] # << >> /\ sent[1][1].op = 257

\* The next frame the read loop of s decodes is a Handshake that parses
HandshakeNext(s) ==
    /\ reader[s] = "run"
    /\ rpc[s] = "idle"
    /\ LET o == ReadFrame(cin[s], cinEOF[s]) IN
       o.kind = "Data" /\ o.data.opcode = "Handshake" /\ ToJsonValue(o.data.msg).ok

\* C16: a Handshake whose id is not cached leaves the session in the lookup
\* with nothing else done; when the lookup returns, with or without a result,
\* the session either fails with NoDiscords or has opened connectors and
\* replayed the Handshake; the lookup decides the display identity only.
LookupNonFatal ==
    [][\A s \in Sessions :
          /\ (HandshakeNext(s) /\ Len(cin'[s]) < Len(cin[s]) /\ rpc'[s] = "fetch") =>
                /\ handshake'[s] = ToJsonValue(ReadFrame(cin[s], cinEOF[s]).data.msg)
                /\ reader'[s] = "run" /\ hosts'[s] = hosts[s] /\ bus'[s] = bus[s]
          /\ (rpc[s] = "fetch" /\ rpc'[s] = "idle") =>
                LET h == handshake[s] IN
                /\ handshake'[s] = h
                /\ \/ /\ reader'[s] = "NoDiscords"
                      /\ hosts'[s] = hosts[s] /\ bus'[s] = bus[s]
                   \/ /\ reader'[s] = "run"
                      /\ Len(hosts'[s]) > Len(hosts[s])
                      /\ bus'[s] = Append(bus[s], Data("Handshake", ToJsonString(h)))
                /\ Id(s)' = IF app_data'[s] = "Some" THEN << "name", ClientId(h) >>
                            ELSE << "client_id", ClientId(h) >>]_vars

\* The lookup failed and a host has been handed the Handshake all the same
LookupNonFatalWitness ==
    /\ app_data[1] = "None" /\ cache = {} /\ handshake[1].ok
    /\ \E i \in DOMAIN hosts[1] : hosts[1][i].out # << >>

\* C17: a session never has two open connectors to the same endpoint.
OneConnectorPerEndpoint ==
    \A s \in Sessions : \A i, j \in DOMAIN hosts[s] :
        (i # j /\ hosts[s][i].name = hosts[s][j].name) =>
            HostStreamClosed(hosts[s][i]) \/ HostStreamClosed(hosts[s][j])

\* C19: once every host connector of a session has ended and the relay can
\* take no further step, the session's read loop has ended too.
EmptyFanoutCloses ==
    \A s \in Sessions :
        (/\ hosts[s] # << >>
         /\ \A i \in DOMAIN hosts[s] : HostStreamClosed(hosts[s][i])
         /\ RelayIdle) => reader[s] # "run"

\* C20: once the relay can take no further step, the two pumps of every host
\* connector have both ended or are both running.
PumpsTogether ==
    RelayIdle =>
        \A s \in Sessions : \A i \in DOMAIN hosts[s] :
            hosts[s][i].w = "done" <=> hosts[s][i].r = "done"

\* The frames of its bus a connector has not received yet
Behind(s, i) == Len(bus[s]) - hosts[s][i].cur

\* C18: what a host has been sent is an unbroken run of the session's bus from
\* the connector's subscription on, in order; a connector is sent a frame only
\* while at most BusCapacity frames are waiting for it; a connector that is
\* further behind is sent nothing more, skips nothing and can only end; the
\* session reads the client whatever the connectors do.
BackpressureByLag ==
    /\ [](\A s \in Sessions : \A i \in DOMAIN hosts[s] :
            LET c == hosts[s][i]
                from == c.cur - Len(c.out) IN
            /\ from >= 0
            /\ c.cur <= Len(bus[s])
            /\ \A k \in 1..Len(c.out) : c.out[k] = ToBuf(bus[s][from + k]))
    /\ [][\A s \in Sessions : \A i \in DOMAIN hosts[s] :
            /\ Len(hosts'[s][i].out) > Len(hosts[s][i].out) =>
                   Behind(s, i) \in 1..BusCapacity
            /\ (hosts[s][i].w = "run" /\ Behind(s, i) > BusCapacity) =>
                   /\ hosts'[s][i].out = hosts[s][i].out
                   /\ hosts'[s][i].cur = hosts[s][i].cur
                   /\ hosts'[s][i] # hosts[s][i] => hosts'[s][i].w = "done"]_vars
    /\ [](\A s \in Sessions :
            (/\ reader[s] = "run"
             /\ ReadFrame(cin[s], cinEOF[s]).kind # "Blocked"
             /\ \E i \in DOMAIN hosts[s] : Behind(s, i) > BusCapacity)
                => ENABLED SessionRead(s))

\* One connector has ended for lag while its host is still connected, and
\* another has been sent every frame of a bus longer than BusCapacity.
BackpressureByLagWitness ==
    \E i, j \in DOMAIN hosts[1] :
        /\ hosts[1][i].w = "done"
        /\ ~hosts[1][i].hEOF
        /\ Behind(1, i) > BusCapacity
        /\ reader[1] = "run"
        /\ hosts[1][j].w = "run"
        /\ Behind(1, j) = 0
        /\ Len(hosts[1][j].out) > BusCapacity

\* The read loop of s has ended
Ended(s) == reader[s] \notin {"idle", "run", "uhandshake", "uloop"}

\* C21: a session that has handled a Close reads no further frame, and once
\* the relay can take no further step its writer task has ended and the
\* client's stream is closed.
CloseHandling ==
    \A s \in Sessions :
        closed[s] =>
            /\ reader[s] = "Ok"
            /\ RelayIdle => writer[s] = "done" /\ StreamClosed(s)

\* C22: once a session has ended and the relay can take no further step, both
\* pumps of each of its host connectors have ended, whether or not the host
\* has closed its side.
ConnectorsEndWithSession ==
    \A s \in Sessions :
        (Ended(s) /\ RelayIdle) =>
            \A i \in DOMAIN hosts[s] : HostStreamClosed(hosts[s][i])

\* C23: a client that has sent a Handshake and then a Frame with an empty
\* payload, to a session that connected to a host, has had that Frame
\* broadcast once the relay can take no further step, and the session is
\* still relaying unless the client has closed.
ZeroLengthIsFrame ==
    \A s \in Sessions :
        (/\ sent[s] = << Peer(0, HsCompact), Peer(1, << >>) >>
         /\ bus[s] # << >>
         /\ RelayIdle) =>
            /\ Len(bus[s]) = 2
            /\ bus[s][2] = Data("Frame", << >>)
            /\ reader[s] = "run" \/ cinEOF[s]

\* The inbound pump of c has taken every byte its host has written
ReadAll(c) == c.hin = << >> /\ c.hsent # << >>

\* C25: an inbound pump that has read a frame whose payload is not UTF-8 has
\* ended, and nothing of that frame is written to the client.
DecodeErrorEndsPump ==
    \A s \in Sessions : \A i \in DOMAIN hosts[s] :
        LET c == hosts[s][i] IN
        /\ (ReadAll(c) /\ \E k \in DOMAIN c.hsent : ~ValidUtf8(c.hsent[k].msg)) =>
               c.r = "done"
        /\ \A k \in DOMAIN cout[s] : \A j \in 9..Len(cout[s][k]) : cout[s][k][j] # 255

\* The frames of fs whose payload is UTF-8
RECURSIVE Decodable(_)
Decodable(fs) ==
    IF fs = << >> THEN << >>
    ELSE (IF ValidUtf8(Head(fs).msg) THEN << Head(fs) >> ELSE << >>) \o Decodable(Tail(fs))

\* C27: what the client of a session with one host connector has been written
\* is, frame for frame and in the host's order, the start of what that host
\* has written, and the writer task has emitted the funnel in its order.
FunnelFifo ==
    /\ [](\A s \in Sessions :
            Len(hosts[s]) = 1 =>
                IsPrefix(Keep(cout[s], Relayed), WireAll(Decodable(hosts[s][1].hsent))))
    /\ [][\A s \in Sessions :
            cout'[s] # cout[s] =>
                /\ funnel[s] # << >>
                /\ cout'[s] = Append(cout[s], ToBuf(Head(funnel[s])))
                /\ funnel'[s] = Tail(funnel[s])]_vars

\* C24: whatever way the client's bytes arrive, the frames the session has
\* broadcast after the Handshake are the Frames the client has written, one
\* for one and whole, and the read loop has not ended on a header or payload
\* it read off a frame boundary.
FrameAligned ==
    \A s \in Sessions :
        /\ \A k \in 2..Len(bus[s]) :
              /\ k <= Len(sent[s])
              /\ bus[s][k] = Data(FromU32(sent[s][k].op), sent[s][k].msg)
        /\ reader[s] \notin {"InvalidOpCode", "Utf8"}

\* The inbound pump of connector i of s takes bytes off its stream in this step
HostReads(s, i) ==
    /\ hosts[s][i].r = "run"
    /\ Len(hosts'[s][i].hin) < Len(hosts[s][i].hin)

\* C26: a read loop that decodes an opcode number outside 0..4 ends with
\* InvalidOpCode and the step relays nothing; an inbound pump that decodes one
\* ends, the step relays nothing and leaves the session, its bus and its
\* other connectors as they were; no frame on the bus, at a host or at the
\* client carries such an opcode.
InvalidOpcodeContained ==
    /\ [][\A s \in Sessions :
            /\ (/\ reader[s] = "run"
                /\ ReadFrame(cin[s], cinEOF[s]).kind = "InvalidOpCode"
                /\ Len(cin'[s]) < Len(cin[s])) =>
                   /\ reader'[s] = "InvalidOpCode"
                   /\ bus'[s] = bus[s] /\ funnel'[s] = funnel[s] /\ hosts'[s] = hosts[s]
            /\ \A i \in DOMAIN hosts[s] :
                  (/\ HostReads(s, i)
                   /\ ReadFrame(hosts[s][i].hin, hosts[s][i].hEOF).kind = "InvalidOpCode") =>
                      /\ hosts'[s][i].r = "done"
                      /\ reader'[s] = reader[s]
                      /\ bus'[s] = bus[s] /\ funnel'[s] = funnel[s] /\ cout'[s] = cout[s]
                      /\ \A j \in DOMAIN hosts[s] : j # i => hosts'[s][j] = hosts[s][j]]_vars
    /\ [](\A s \in Sessions :
            /\ \A k \in DOMAIN bus[s] : bus[s][k].opcode \in OpCodes
            /\ \A k \in DOMAIN funnel[s] : funnel[s][k].opcode \in OpCodes
            /\ \A k \in DOMAIN cout[s] : OpOf(cout[s][k]) \in 0..4
            /\ \A i \in DOMAIN hosts[s] : \A k \in DOMAIN hosts[s][i].out :
                  OpOf(hosts[s][i].out[k]) \in 0..4
            /\ reader[s] = "InvalidOpCode" => ~ENABLED SessionRead(s))

\* One host's inbound pump has ended on opcode number 7 while the session is
\* relaying and the client has been written a frame of the other host
InvalidOpcodeContainedWitness ==
    /\ reader[1] = "run"
    /\ \E i, j \in DOMAIN hosts[1] :
          /\ i # j
          /\ hosts[1][i].hsent # << >> /\ hosts[1][i].hsent[1].op = 7
          /\ hosts[1][i].r = "done" /\ ~hosts[1][i].hEOF
          /\ hosts[1][j].r = "run"
          /\ hosts[1][j].hsent # << >> /\ hosts[1][j].hin = << >>
          /\ cout[1] = << Wire(hosts[1][j].hsent[1]) >>

\* start() has not bound the server's name
Unbound == start \in {"unbound", "created", "BindError", "NoNameAvailable"}

\* C28: the bind succeeds exactly when the chosen name is free at that
\* moment and fails with nothing changed when it has been taken; a server
\* that is not bound takes no client; a failed start stays failed; and the
\* only name that ever disappears is the server's own, bound by it, removed
\* on POSIX after the token is cancelled.
BindAuthoritative ==
    /\ [][(start = "created" /\ start' # "created") =>
              IF name \in exists
              THEN start' = "BindError" /\ exists' = exists
              ELSE start' = "listening" /\ exists' = exists \cup {name}]_vars
    /\ [](Unbound => \A s \in Sessions : pipe[s] = "none")
    /\ [][start = "BindError" => start' = "BindError" /\ name' = name]_vars
    /\ [][\A n \in exists \ exists' :
              n = name /\ start = "listening" /\ platform = "unix" /\ token]_vars

\* The name the server chose was taken before the bind: the start has failed
\* and the name is still there after the token was cancelled
BindAuthoritativeWitness ==
    /\ start = "BindError"
    /\ name \in exists
    /\ token

\* What the relay holds for session s
SessionState(s) ==
    << reader[s], writer[s], closed[s], handshake[s], clients[s], bus[s], funnel[s],
       cout[s], hosts[s], app_data[s], rpc[s] >>

\* C29: the bus of a session holds frames of its own client only, each of its
\* connectors has been written an unbroken run of that bus, its funnel and
\* its client's stream hold frames of its own host connections only, and no
\* step changes what the relay holds for two sessions.
SessionIsolation ==
    /\ [](\A s \in Sessions :
            /\ \A k \in DOMAIN bus[s] :
                  bus[s][k] \in { Data("Handshake", IsoHandshake(s).msg),
                                  Data("Frame", IsoFrame(s).msg) }
            /\ \A i \in DOMAIN hosts[s] :
                  LET c == hosts[s][i] IN
                  \A k \in DOMAIN c.out : c.out[k] = ToBuf(bus[s][c.cur - Len(c.out) + k])
            /\ \A k \in DOMAIN funnel[s] : funnel[s][k] = Data("Frame", IsoHostFrame(s).msg)
            /\ \A k \in DOMAIN cout[s] : cout[s][k] = Wire(IsoHostFrame(s)))
    /\ [][\A s, t \in Sessions :
            s # t => SessionState(s)' = SessionState(s) \/ SessionState(t)' = SessionState(t)]_vars

\* Both sessions are relaying: the host has been handed each client's frames on
\* that client's connection, and each client has been written the host's
\* frame of its own connection
SessionIsolationWitness ==
    \A s \in IsoSessions :
        /\ reader[s] = "run"
        /\ Len(hosts[s]) = 1
        /\ hosts[s][1].out = << Wire(IsoHandshake(s)), Wire(IsoFrame(s)) >>
        /\ cout[s] = << Wire(IsoHostFrame(s)) >>

\* The lookup of session s returns in this step
RpcReturns(s) == rpc[s] = "fetch" /\ rpc'[s] = "idle"

\* The read loop of s handles a Handshake that parses in this step
HandlesHandshake(s) == HandshakeNext(s) /\ Len(cin'[s]) < Len(cin[s])

\* C30: the cache never loses an entry; an id enters it only in the step in
\* which a lookup of that id returns with a result; a lookup that returns
\* without one leaves the cache as it was; a Handshake whose id is cached is
\* answered from the cache without a fetch, any other starts a fetch.
CacheMonotone ==
    /\ [][cache \subseteq cache']_vars
    /\ [][\A id \in cache' \ cache :
            \E s \in Sessions :
                RpcReturns(s) /\ ClientId(handshake[s]) = id /\ app_data'[s] = "Some"]_vars
    /\ [][\A s \in Sessions :
            (RpcReturns(s) /\ app_data'[s] = "None") => cache' = cache]_vars
    /\ [][\A s \in Sessions :
            HandlesHandshake(s) =>
                LET id == ClientId(ToJsonValue(ReadFrame(cin[s], cinEOF[s]).data.msg)) IN
                /\ cache' = cache
                /\ IF id \in cache
                   THEN rpc'[s] = "idle" /\ app_data'[s] = "Some"
                   ELSE rpc'[s] = "fetch" /\ app_data'[s] = app_data[s]]_vars

\* A lookup is in its fetch for an id that the lookup of another session has
\* cached meanwhile
CacheMonotoneWitness ==
    \E s, t \in Sessions :
        /\ s # t
        /\ rpc[s] = "fetch"
        /\ ClientId(handshake[s]) \in cache
        /\ handshake[t].ok /\ ClientId(handshake[t]) = ClientId(handshake[s])
        /\ app_data[t] = "Some"

=============================================================================
